---- MODULE Spec2Model ----
(***************************************************************************)
(* A model of the hass-dashboard program: the periodic driver              *)
(* (dashboard/__main__.py), the render cycle (dashboard/generate.py), the  *)
(* weather snapshot builder and its cache gate (dashboard/weather.py), the *)
(* persistent cache (dashboard/cache.py) and the calendar fetcher          *)
(* (dashboard/calendar.py).                                                *)
(*                                                                         *)
(* Four specifications share the variables:                                *)
(*   SpecWeather   Weather.from_one_call applied to bounded payloads       *)
(*   SpecCalendar  get_calendars over bounded calendar responses           *)
(*   SpecCache     Cache.load_cache / Cache.save_cache over one file       *)
(*   Spec          the driver, the render cycles, get_weather and files    *)
(***************************************************************************)
EXTENDS Integers, Sequences, FiniteSets, TLC

VARIABLES
    one,          \* weather: the one-call payload handed to from_one_call
    built,        \* weather: what from_one_call produced for `one`
    results,      \* calendar: calendar id -> response received so far
    grouped,      \* calendar: what get_calendars returned
    cfile,        \* cache.py: the backing file of the persistent cache
    expiration,   \* cache.py: Cache.expiration
    loaded,       \* cache.py: the outcome of the last load_cache
    now,          \* wall clock, in seconds
    driver,       \* __main__: position of generate_image_every_minute
    sleep,        \* __main__: the asyncio.sleep task of the current gather
    started,      \* __main__: number of generate_image calls made so far
    cyc,          \* generate: cycle number -> state of that generate_image call
    files,        \* generate: path -> content of the image files
    wcache,       \* weather: the entry of weather_cache under cache_key
    policy,       \* weather: what weather_cache.load does with an expired entry
    requests      \* weather: number of requests sent to the provider

weatherVars == <<one, built>>
calVars == <<results, grouped>>
cacheVars == <<cfile, expiration, loaded>>
mainVars == <<driver, sleep, started, cyc, files, wcache, policy, requests>>
vars == <<one, built, results, grouped, cfile, expiration, loaded, now, driver,
          sleep, started, cyc, files, wcache, policy, requests>>

(***************************************************************************)
(* dashboard/calendar.py                                                   *)
(***************************************************************************)
\* A raised exception, by its Python class.
Raised(cls) == [raised |-> cls]
IsRaised(r) == "raised" \in DOMAIN r

\* Instants are hours since the epoch, in the zone TZ; a "date" string names
\* a day number.  strptime(dt, "%Y-%m-%dT%H:%M:%S%z").astimezone(TZ) is the
\* instant written; strptime(dt, "%Y-%m-%d").astimezone(tz=TZ) is that day's
\* local midnight (the process runs in TZ).
strptime_datetime(dt) == dt
strptime_date(dt) == dt * 24

\* datetime.date()
date_of(instant) == instant \div 24

\* Event.get_datetime
Event_get_datetime(name, d) ==
    IF "dateTime" \in DOMAIN d THEN [dt |-> strptime_datetime(d.dateTime), all_day |-> FALSE]
    ELSE IF "date" \in DOMAIN d THEN [dt |-> strptime_date(d.date), all_day |-> TRUE]
    ELSE Raised("ValueError")

\* Event.from_dict
Event_from_dict(d) ==
    LET name == d.summary
        s == Event_get_datetime(name, d.start)
        e == Event_get_datetime(name, d.end)
    IN  IF IsRaised(s) THEN s
        ELSE IF IsRaised(e) THEN e
        ELSE [start |-> s.dt, end |-> e.dt, name |-> name, all_day |-> e.all_day]

(***************************************************************************)
(* dashboard/weather.py                                                    *)
(***************************************************************************)
THUNDERSTORM == 200
DRIZZLE == 300
RAIN == 500
SNOW == 600

\* _weather_to_icon_name: (css class, name) of a weather code.
weather_to_icon_name(weather_code) ==
    CASE THUNDERSTORM <= weather_code /\ weather_code <= THUNDERSTORM + 99
             -> <<"wi wi-thunderstorm", "Thunderstorm">>
      [] DRIZZLE <= weather_code /\ weather_code <= DRIZZLE + 99
             -> <<"wi wi-sprinkle", "Drizzle">>
      [] RAIN <= weather_code /\ weather_code <= RAIN + 99
             -> <<"wi wi-rain", "Rain">>
      [] SNOW <= weather_code /\ weather_code <= SNOW + 99
             -> <<"wi wi-snow", "Snow">>
      [] weather_code = 701 -> <<"wi wi-fog", "Mist">>
      [] weather_code = 711 -> <<"wi wi-smoke", "Smoke">>
      [] weather_code = 721 -> <<"wi wi-day-haze", "Haze">>
      [] weather_code \in {731, 761} -> <<"wi wi-dust", "Dust">>
      [] weather_code = 741 -> <<"wi wi-fog", "Fog">>
      [] weather_code = 751 -> <<"wi wi-sandstorm", "Sand">>
      [] weather_code = 762 -> <<"wi wi-volcano", "Ash">>
      [] weather_code = 771 -> <<"wi wi-strong-wind", "Squall">>
      [] weather_code = 781 -> <<"wi wi-tornado", "Tornado">>
      [] weather_code = 800 -> <<"wi wi-day-sunny", "Clear">>
      [] weather_code = 801 -> <<"wi wi-cloud", "Few Clouds">>
      [] weather_code \in {802, 803} -> <<"wi wi-cloudy", "Partly Cloudy">>
      [] weather_code = 804 -> <<"wi wi-cloudy", "Overcast">>
      [] OTHER -> <<"wi wi-na", "Unknown">>

\* next(iter(w["weather"]), {"id": 0})["id"]
first_weather_id(weather) == IF weather = <<>> THEN 0 ELSE Head(weather)

\* int(x) on a float: truncation toward zero.  Raw temperatures are carried
\* in half degrees (141 is 70.5 degrees).
int(halves) == IF halves >= 0 THEN halves \div 2 ELSE -((-halves) \div 2)

\* datetime.fromtimestamp(dt, tz=TZ): the instant dt; instants compare as
\* their epoch seconds do.
fromtimestamp(dt) == dt

\* The strings the model compares (event names, condition names), in str
\* order: Python compares code points.
StrOrder ==
    <<"A", "Ash", "B", "Clear", "Drizzle", "Dust", "Few Clouds", "Fog", "Haze", "Mist",
      "Overcast", "Partly Cloudy", "Rain", "Sand", "Smoke", "Snow", "Squall",
      "Thunderstorm", "Tornado", "Unknown">>

str_rank(s) == CHOOSE i \in 1..Len(StrOrder) : StrOrder[i] = s

\* Forecast.from_one_call
Forecast_from_one_call(w) ==
    LET icon == weather_to_icon_name(first_weather_id(w.weather))
    IN  [date |-> fromtimestamp(w.dt),
         high_temp |-> int(w.temp.max),
         low_temp |-> int(w.temp.min),
         condition |-> icon[2],
         weather_class |-> icon[1]]

\* HourlyForecast.from_one_call
HourlyForecast_from_one_call(w) ==
    LET icon == weather_to_icon_name(first_weather_id(w.weather))
    IN  [date |-> fromtimestamp(w.dt),
         temp |-> int(w.temp),
         condition |-> icon[2],
         weather_class |-> icon[1]]

\* @dataclass(order=True) on Forecast: field-by-field tuple comparison
\* (date, high_temp, low_temp, condition, weather_class).  Two forecasts with
\* the same condition have the same weather_class, so the last field never
\* decides.
Forecast_lt(a, b) ==
    \/ a.date < b.date
    \/ a.date = b.date /\ a.high_temp < b.high_temp
    \/ a.date = b.date /\ a.high_temp = b.high_temp /\ a.low_temp < b.low_temp
    \/ /\ a.date = b.date /\ a.high_temp = b.high_temp /\ a.low_temp = b.low_temp
       /\ str_rank(a.condition) < str_rank(b.condition)

\* @dataclass(order=True) on HourlyForecast: (date, temp, condition, weather_class)
HourlyForecast_lt(a, b) ==
    \/ a.date < b.date
    \/ a.date = b.date /\ a.temp < b.temp
    \/ a.date = b.date /\ a.temp = b.temp
       /\ str_rank(a.condition) < str_rank(b.condition)

\* @dataclass(frozen=True, order=True) on Event: (start, end, name, all_day),
\* False before True.
Event_lt(a, b) ==
    \/ a.start < b.start
    \/ a.start = b.start /\ a.end < b.end
    \/ a.start = b.start /\ a.end = b.end /\ str_rank(a.name) < str_rank(b.name)
    \/ /\ a.start = b.start /\ a.end = b.end /\ a.name = b.name
       /\ ~a.all_day /\ b.all_day

\* The order=True comparison of the dataclass `cls`.
dataclass_lt(cls, a, b) ==
    CASE cls = "Forecast" -> Forecast_lt(a, b)
      [] cls = "HourlyForecast" -> HourlyForecast_lt(a, b)
      [] cls = "Event" -> Event_lt(a, b)

\* sorted(): a stable ascending sort, here by insertion.
RECURSIVE insert_sorted(_, _, _)
insert_sorted(x, s, cls) ==
    IF s = <<>> THEN <<x>>
    ELSE IF dataclass_lt(cls, x, Head(s)) THEN <<x>> \o s
    ELSE <<Head(s)>> \o insert_sorted(x, Tail(s), cls)

RECURSIVE sorted(_, _)
sorted(s, cls) ==
    IF s = <<>> THEN <<>>
    ELSE insert_sorted(s[Len(s)], sorted(SubSeq(s, 1, Len(s) - 1), cls), cls)

map_daily(daily) == [i \in 1..Len(daily) |-> Forecast_from_one_call(daily[i])]
map_hourly(hourly) == [i \in 1..Len(hourly) |-> HourlyForecast_from_one_call(hourly[i])]

\* snapshot_icon with the slip of reading today's daily entry instead.
snapshot_icon_from_today(one_call, todays_forecast) ==
    <<todays_forecast.weather_class, todays_forecast.condition>>

\* Which top-level condition/class the snapshot carries: those of the
\* payload's current block.
snapshot_icon(one_call, todays_forecast) ==
    weather_to_icon_name(first_weather_id(one_call.current.weather))

\* Weather.from_one_call with forecasts.pop() in place of forecasts.pop(0).
Weather_from_one_call_pop_last(one_call) ==
    LET forecasts == sorted(map_daily(one_call.daily), "Forecast")
        hourly == sorted(map_hourly(one_call.hourly), "HourlyForecast")
        icon == weather_to_icon_name(first_weather_id(one_call.current.weather))
    IN  IF forecasts = <<>> THEN Raised("IndexError")
        ELSE LET todays_forecast == forecasts[Len(forecasts)]
             IN  [condition |-> icon[2],
                  weather_class |-> icon[1],
                  temperature |-> int(one_call.current.temp),
                  high_temp |-> todays_forecast.high_temp,
                  low_temp |-> todays_forecast.low_temp,
                  forecasts |-> SubSeq(forecasts, 1, Len(forecasts) - 1),
                  hourly |-> hourly]

\* Weather.from_one_call that makes up a "today" when there is no daily entry.
Weather_from_one_call_empty_default(one_call) ==
    LET forecasts == sorted(map_daily(one_call.daily), "Forecast")
        hourly == sorted(map_hourly(one_call.hourly), "HourlyForecast")
        icon == weather_to_icon_name(first_weather_id(one_call.current.weather))
        temperature == int(one_call.current.temp)
    IN  [condition |-> icon[2],
         weather_class |-> icon[1],
         temperature |-> temperature,
         high_temp |-> IF forecasts = <<>> THEN temperature ELSE Head(forecasts).high_temp,
         low_temp |-> IF forecasts = <<>> THEN temperature ELSE Head(forecasts).low_temp,
         forecasts |-> IF forecasts = <<>> THEN <<>> ELSE Tail(forecasts),
         hourly |-> hourly]

\* Weather.from_one_call.  forecasts.pop(0) on an empty list raises IndexError.
Weather_from_one_call(one_call) ==
    LET icon(today) == snapshot_icon(one_call, today)
        temperature == int(one_call.current.temp)
        forecasts == sorted(map_daily(one_call.daily), "Forecast")
        hourly == sorted(map_hourly(one_call.hourly), "HourlyForecast")
    IN  IF forecasts = <<>> THEN Raised("IndexError")
        ELSE LET todays_forecast == Head(forecasts)
             IN  [condition |-> icon(todays_forecast)[2],
                  weather_class |-> icon(todays_forecast)[1],
                  temperature |-> temperature,
                  high_temp |-> todays_forecast.high_temp,
                  low_temp |-> todays_forecast.low_temp,
                  forecasts |-> Tail(forecasts),
                  hourly |-> hourly]

(***************************************************************************)
(* dashboard/calendar.py: get_calendars                                    *)
(***************************************************************************)
CALENDAR_ENTITY_IDS == <<"family", "work">>

Pending == [state |-> "pending"]
Returned(v) == [returned |-> v]

RECURSIVE flatten(_)
flatten(lists) == IF lists = <<>> THEN <<>> ELSE Head(lists) \o flatten(Tail(lists))

\* Iterating a set: its elements once each, in some order.
RECURSIVE iterate(_)
iterate(S) ==
    IF S = {} THEN <<>> ELSE LET x == CHOOSE y \in S : TRUE IN <<x>> \o iterate(S \ {x})

\* A list comprehension in place of the set comprehension: no element dropped.
keep_all(events) == events

\* {Event.from_dict(event) for result in results for event in result}
event_set(events) == iterate({events[i] : i \in DOMAIN events})

\* grouped[event.start.date()].append(event), over a defaultdict(list)
group_append(g, event) ==
    LET day == date_of(event.start)
    IN  IF day \in DOMAIN g THEN [g EXCEPT ![day] = Append(@, event)]
        ELSE g @@ (day :> <<event>>)

RECURSIVE group_events(_, _)
group_events(events, g) ==
    IF events = <<>> THEN g
    ELSE group_events(Tail(events), group_append(g, Head(events)))

\* get_calendars, given what the requests of asyncio.gather produced: per
\* calendar Returned(list of records) or the exception its request raised;
\* gather raises the exception of a request that raised.
get_calendars(responses) ==
    LET failed == {i \in DOMAIN responses : IsRaised(responses[i])}
    IN  IF failed # {} THEN responses[CHOOSE i \in failed : TRUE]
        ELSE LET raw == flatten([i \in DOMAIN responses |-> responses[i].returned])
                 events == [i \in DOMAIN raw |-> Event_from_dict(raw[i])]
             IN  IF \E i \in DOMAIN events : IsRaised(events[i])
                 THEN Raised("ValueError")
                 ELSE Returned(group_events(sorted(event_set(events), "Event"), <<>>))

(***************************************************************************)
(* dashboard/cache.py                                                      *)
(***************************************************************************)
None == [state |-> "None"]
Missing == [state |-> "missing"]

\* pickle.dump: the stream written for a value: protocol header, frame
\* header, the object, STOP.
pickle_dump(data) ==
    <<[op |-> "PROTO"], [op |-> "FRAME"], [op |-> "OBJ", arg |-> data], [op |-> "STOP"]>>

\* pickle.load: the value of a whole stream; EOFError ("Ran out of input")
\* when the stream ends where an opcode is expected, UnpicklingError when a
\* frame is cut short or the first opcode is none of pickle's.
pickle_load(bytes) ==
    IF bytes = <<>> THEN Raised("EOFError")
    ELSE IF bytes[1] # [op |-> "PROTO"] THEN Raised("UnpicklingError")
    ELSE IF Len(bytes) = 1 THEN Raised("EOFError")
    ELSE IF Len(bytes) < 4 THEN Raised("UnpicklingError")
    ELSE Returned(bytes[3].arg)

\* load_cache with the age test left out.
load_cache_any_age(file, exp, t) ==
    IF file = Missing THEN Returned(None)
    ELSE IF ~file.readable THEN Raised("PermissionError")
    ELSE LET data == pickle_load(file.bytes)
         IN  IF data = Raised("UnpicklingError") THEN Returned(None) ELSE data

\* Cache.load_cache on the backing file, at time t.  stat() on a missing file
\* raises FileNotFoundError, which is caught, as is UnpicklingError; open()
\* on an unreadable file raises PermissionError and pickle.load on a stream
\* that ends early raises EOFError, which are not.
load_cache(file, exp, t) ==
    IF file = Missing THEN Returned(None)
    ELSE IF file.mtime + exp > t
    THEN IF ~file.readable THEN Raised("PermissionError")
         ELSE LET data == pickle_load(file.bytes)
              IN  IF data = Raised("UnpicklingError") THEN Returned(None) ELSE data
    ELSE Returned(None)

\* Cache.save_cache: open("wb") truncates or creates the file, pickle.dump
\* writes the stream; `written` is how much of it reached the file.
\* An existing file keeps its permission bits.
save_cache(file, data, written, t) ==
    [mtime |-> t, bytes |-> SubSeq(pickle_dump(data), 1, written),
     readable |-> IF file = Missing THEN TRUE ELSE file.readable]

(***************************************************************************)
(* dashboard/weather.py: get_weather and weather_cache                     *)
(***************************************************************************)
WEATHER_CACHE_EXPIRATION == 600
HTTP_OK == 200

\* weather_cache.load(cache_key): the keyed, in-memory cache class that
\* weather.py calls is not among the sources; this is the Time-Bounded Cache
\* of the specification.  Gives the value, the staleness flag and the entry
\* left behind.  `expired` is "evict" (an expired entry is dropped and
\* reported absent) or "keep" (it is returned with stale = TRUE).
Cache_load(entry, expired, t) ==
    IF entry = Missing THEN [value |-> None, stale |-> TRUE, entry |-> Missing]
    ELSE IF t - entry.stored_at < WEATHER_CACHE_EXPIRATION
    THEN [value |-> entry.value, stale |-> FALSE, entry |-> entry]
    ELSE IF expired = "evict" THEN [value |-> None, stale |-> TRUE, entry |-> Missing]
    ELSE [value |-> entry.value, stale |-> TRUE, entry |-> entry]

\* weather_cache.save(cache_key, weather): overwrites, stamped "now".
Cache_save(value, t) == [value |-> value, stored_at |-> t]

\* The gate with the staleness test inverted.
use_cached_when_stale(weather, stale) == weather # None /\ stale

\* get_weather: `if weather is not None and not stale: return weather`
use_cached(weather, stale) == weather # None /\ ~stale

\* The get_weather coroutine of one render cycle: where it is, its local
\* `weather`, the response it got, and the exception it raised ("" if none).
NewWeatherTask == [pc |-> "load", weather |-> None, response |-> None, error |-> ""]

\* get_weather up to its first await: the cache is consulted and either the
\* cached value is returned or the request is sent.
get_weather_start(task, entry, expired, t) ==
    LET got == Cache_load(entry, expired, t)
    IN  IF use_cached(got.value, got.stale)
        THEN [task |-> [task EXCEPT !.pc = "returned", !.weather = got.value],
              entry |-> got.entry, sent |-> 0]
        ELSE [task |-> [task EXCEPT !.pc = "request", !.weather = got.value],
              entry |-> got.entry, sent |-> 1]

\* get_weather without `assert weather is not None`: after a response that
\* is not OK it returns whatever `weather` holds, None included.
get_weather_finish_no_assert(task, response, entry, t) ==
    IF response.status = HTTP_OK
    THEN LET weather == Weather_from_one_call(response.data)
         IN  IF IsRaised(weather)
             THEN [task |-> [task EXCEPT !.pc = "raised", !.response = response,
                                         !.error = weather.raised],
                   entry |-> entry]
             ELSE [task |-> [task EXCEPT !.pc = "returned", !.response = response,
                                         !.weather = weather],
                   entry |-> Cache_save(weather, t)]
    ELSE [task |-> [task EXCEPT !.pc = "returned", !.response = response],
          entry |-> entry]

\* get_weather from the response on: an OK response is parsed, built into a
\* Weather and saved; on any other status `weather` is what the cache gave,
\* and `assert weather is not None` decides.
get_weather_finish(task, response, entry, t) ==
    IF response.status = HTTP_OK
    THEN LET weather == Weather_from_one_call(response.data)
         IN  IF IsRaised(weather)
             THEN [task |-> [task EXCEPT !.pc = "raised", !.response = response,
                                         !.error = weather.raised],
                   entry |-> entry]
             ELSE [task |-> [task EXCEPT !.pc = "returned", !.response = response,
                                         !.weather = weather],
                   entry |-> Cache_save(weather, t)]
    ELSE IF task.weather = None
    THEN [task |-> [task EXCEPT !.pc = "raised", !.response = response,
                                !.error = "AssertionError"],
          entry |-> entry]
    ELSE [task |-> [task EXCEPT !.pc = "returned", !.response = response],
          entry |-> entry]

(***************************************************************************)
(* dashboard/generate.py                                                   *)
(***************************************************************************)
OUTPUT_PATH == "output.png"
\* output_path.with_suffix(f".tmp{output_path.suffix}")
temp_output == "output.tmp.png"
output_html == "./output.html"

\* Saving the screenshot under the published path itself.
screenshot_save_as_output == OUTPUT_PATH

\* hti.screenshot(..., save_as=str(temp_output))
screenshot_save_as == temp_output

\* draw_weather_forecast raises on an hourly list it cannot scale: min() of an
\* empty list (ValueError), or a zero span of time or of temperature
\* (ZeroDivisionError).
draw_weather_forecast_raises(hourly) ==
    \/ hourly = <<>>
    \/ \A i, j \in DOMAIN hourly : hourly[i].date = hourly[j].date
    \/ \A i, j \in DOMAIN hourly : hourly[i].temp = hourly[j].temp

\* One generate_image call: where it is, current_datetime, and its two
\* fetch_data tasks.
NewCycle(t) ==
    [pc |-> "fetch", current_datetime |-> t, weather |-> NewWeatherTask,
     calendars |-> "pending"]

(***************************************************************************)
(* dashboard/__main__.py                                                   *)
(***************************************************************************)
SLEEP_SECONDS == 600

\* A driver that waits for the sleep alone, the render cycle left running.
gather_returns_after_sleep(sleep_task, cycle_pc) == sleep_task = [state |-> "done"]

\* await asyncio.gather(asyncio.sleep(600), generate_image()) returns when
\* both are done.
gather_returns(sleep_task, cycle_pc) ==
    sleep_task = [state |-> "done"] /\ cycle_pc = "done"

(***************************************************************************)
(* Idle values: what each specification leaves the other parts at.         *)
(***************************************************************************)
NotBuilt == [state |-> "not built"]
NotFetched == [state |-> "not fetched"]
NeverLoaded == [state |-> "never loaded"]
NoSleep == [state |-> "no sleep"]

WeatherIdle == one = [state |-> "none"] /\ built = NotBuilt
CalendarIdle == results = <<>> /\ grouped = NotFetched
CacheIdle == cfile = Missing /\ expiration = 0 /\ loaded = NeverLoaded
MainIdle ==
    /\ driver = "idle" /\ sleep = NoSleep /\ started = 0 /\ cyc = <<>>
    /\ files = <<>> /\ wcache = Missing /\ policy = "none" /\ requests = 0

(***************************************************************************)
(* SpecWeather: Weather.from_one_call over bounded one-call payloads.      *)
(***************************************************************************)
MaxDaily == 3

SeqsUpTo(S, n) == UNION {[1..k -> S] : k \in 0..n}

DailyDts == {86400, 172800}
DailyTemps == {[max |-> 141, min |-> 101], [max |-> 131, min |-> -3]}
DailyWeathers == {<<>>, <<800>>, <<500, 800>>}
DailyEntries == [dt : DailyDts, temp : DailyTemps, weather : DailyWeathers]
HourlyLists ==
    {<<>>, <<[dt |-> 7200, temp |-> 139, weather |-> <<800>>],
             [dt |-> 3600, temp |-> 143, weather |-> <<>>]>>}
CurrentBlocks == [temp : {145}, weather : {<<>>, <<500>>}]
Payloads ==
    [current : CurrentBlocks, hourly : HourlyLists,
     daily : SeqsUpTo(DailyEntries, MaxDaily)]

\* The caller hands a payload to the builder and keeps what it returns.
BuildWeather ==
    /\ built = NotBuilt
    /\ built' = Weather_from_one_call(one)
    /\ UNCHANGED <<one, calVars, cacheVars, now, mainVars>>

InitWeather ==
    /\ one \in Payloads
    /\ built = NotBuilt
    /\ CalendarIdle
    /\ CacheIdle
    /\ now = 0
    /\ MainIdle

NextWeather == BuildWeather

SpecWeather == InitWeather /\ [][NextWeather]_vars

(***************************************************************************)
(* Claims about Weather.from_one_call (SpecWeather).                       *)
(***************************************************************************)
Count(s, x) == Cardinality({i \in DOMAIN s : s[i] = x})
WasBuilt == built # NotBuilt /\ ~IsRaised(built)

\* The raw daily entries that are earliest by dt.
EarliestDaily == {k \in DOMAIN one.daily : \A i \in DOMAIN one.daily : one.daily[k].dt <= one.daily[i].dt}

\* The raw daily entry k, as the snapshot shows a daily entry: its instant,
\* its truncated high and low, and the icon of its first weather descriptor.
Shown(k) ==
    LET w == one.daily[k]
        icon == weather_to_icon_name(IF w.weather = <<>> THEN 0 ELSE w.weather[1])
    IN  [date |-> w.dt, high_temp |-> int(w.temp.max), low_temp |-> int(w.temp.min),
         condition |-> icon[2], weather_class |-> icon[1]]

\* C7: for a payload with a non-empty daily list the snapshot's forecasts are
\* the daily entries in ascending date order with one earliest entry taken
\* out (one element fewer, and that entry occurs once less than in the
\* payload), and the top-level high and low are that entry's.
C7_ForecastsAreDailyMinusToday ==
    (built # NotBuilt /\ one.daily # <<>>) =>
        /\ ~IsRaised(built)
        /\ Len(built.forecasts) = Len(one.daily) - 1
        /\ \A i, j \in DOMAIN built.forecasts :
               i < j => built.forecasts[i].date <= built.forecasts[j].date
        /\ \E k \in EarliestDaily :
               /\ built.high_temp = Shown(k).high_temp
               /\ built.low_temp = Shown(k).low_temp
               /\ \A i \in DOMAIN built.forecasts : Shown(k).date <= built.forecasts[i].date
               /\ \A m \in DOMAIN one.daily :
                      Count(built.forecasts, Shown(m))
                          = Cardinality({i \in DOMAIN one.daily : Shown(i) = Shown(m)})
                            - (IF Shown(m) = Shown(k) THEN 1 ELSE 0)

\* Witness of C7: a snapshot built from three daily entries given out of date
\* order, the later day first.
C7_Witness ==
    /\ WasBuilt
    /\ Len(one.daily) = 3
    /\ one.daily[1].dt > one.daily[2].dt
    /\ Len(built.forecasts) = 2
    /\ built.high_temp = 70 /\ built.low_temp = 50

MaxEvents == 3

EventNames == {"A", "B"}
StartDicts == {[dateTime |-> 30], [dateTime |-> 48], [date |-> 2]}
EndDicts == {[dateTime |-> 72], [date |-> 3]}
RawEvents ==
    [summary : EventNames, start : StartDicts, end : EndDicts]
        \cup {[summary |-> "A", start |-> <<>>, end |-> [date |-> 3]]}

IsReturned(r) == "returned" \in DOMAIN r
EventsReceived == Len(flatten([i \in 1..Len(results) |->
                       IF IsReturned(results[i]) THEN results[i].returned ELSE <<>>]))

\* get_calendar_data: one calendar's request returns its list of records.
CalendarResponds(i, data) ==
    /\ grouped = NotFetched
    /\ results[i] = Pending
    /\ Len(data) + EventsReceived <= MaxEvents
    /\ results' = [results EXCEPT ![i] = Returned(data)]
    /\ UNCHANGED <<grouped, weatherVars, cacheVars, now, mainVars>>

\* get_calendar_data: one calendar's request raises (transport or JSON error).
CalendarFails(i) ==
    /\ grouped = NotFetched
    /\ results[i] = Pending
    /\ results' = [results EXCEPT ![i] = Raised("ClientError")]
    /\ UNCHANGED <<grouped, weatherVars, cacheVars, now, mainVars>>

\* asyncio.gather returns (all requests done) or raises (one request raised),
\* and get_calendars groups what it got.
GetCalendarsReturns ==
    /\ grouped = NotFetched
    /\ (\A i \in DOMAIN results : results[i] # Pending)
           \/ (\E i \in DOMAIN results : IsRaised(results[i]))
    /\ grouped' = get_calendars(results)
    /\ UNCHANGED <<results, weatherVars, cacheVars, now, mainVars>>

InitCalendar ==
    /\ results = [i \in DOMAIN CALENDAR_ENTITY_IDS |-> Pending]
    /\ grouped = NotFetched
    /\ WeatherIdle
    /\ CacheIdle
    /\ now = 0
    /\ MainIdle

NextCalendar ==
    \/ \E i \in DOMAIN CALENDAR_ENTITY_IDS, n \in 0..MaxEvents :
           /\ n + EventsReceived <= MaxEvents
           /\ \E data \in [1..n -> RawEvents] : CalendarResponds(i, data)
    \/ \E i \in DOMAIN CALENDAR_ENTITY_IDS : CalendarFails(i)
    \/ GetCalendarsReturns

SpecCalendar == InitCalendar /\ [][NextCalendar]_vars

(***************************************************************************)
(* Claims about get_calendars (SpecCalendar).                              *)
(***************************************************************************)
\* The events the calendars returned, as Event tuples.
AllEvents ==
    {Event_from_dict(results[i].returned[j]) :
        <<i, j>> \in {p \in (DOMAIN results) \X (1..MaxEvents) :
                         IsReturned(results[p[1]]) /\ p[2] <= Len(results[p[1]].returned)}}

\* Each distinct event is listed exactly once, under its start date only, and
\* nothing else is listed.
EachEventOnceUnderItsDay(g) ==
    /\ \A e \in AllEvents :
           /\ date_of(e.start) \in DOMAIN g
           /\ \A d \in DOMAIN g : Count(g[d], e) = (IF d = date_of(e.start) THEN 1 ELSE 0)
    /\ \A d \in DOMAIN g : \A i \in DOMAIN g[d] : g[d][i] \in AllEvents

\* a before b by (start, end, name), strictly.
Before3(a, b) ==
    \/ a.start < b.start
    \/ a.start = b.start /\ a.end < b.end
    \/ a.start = b.start /\ a.end = b.end /\ str_rank(a.name) < str_rank(b.name)

\* C10 as the specification states it: each distinct event once under its
\* start date and nowhere else, and within each day the events strictly
\* ascending by (start, end, name).
C10_GroupedStrictByStartEndName ==
    IsReturned(grouped) =>
        /\ EachEventOnceUnderItsDay(grouped.returned)
        /\ \A d \in DOMAIN grouped.returned :
               \A i, j \in DOMAIN grouped.returned[d] :
                   i < j => Before3(grouped.returned[d][i], grouped.returned[d][j])

\* C10 as amended: each distinct event once under its start date and nowhere
\* else, and within each day the events strictly ascending by the full tuple
\* (start, end, name, all_day): two events of a day that agree on start, end
\* and name differ in all_day, the timed one first.
C10_GroupedStrictByFullTuple ==
    IsReturned(grouped) =>
        /\ EachEventOnceUnderItsDay(grouped.returned)
        /\ \A d \in DOMAIN grouped.returned :
               \A i, j \in DOMAIN grouped.returned[d] :
                   i < j =>
                       LET a == grouped.returned[d][i]
                           b == grouped.returned[d][j]
                       IN  \/ Before3(a, b)
                           \/ /\ a.start = b.start /\ a.end = b.end /\ a.name = b.name
                              /\ ~a.all_day /\ b.all_day

\* Witness of C10: both calendars returned the same record, one of them with
\* a second record of the same day listed before it, and the day lists two.
C10_Witness ==
    /\ IsReturned(grouped)
    /\ IsReturned(results[1]) /\ IsReturned(results[2])
    /\ Len(results[1].returned) = 2 /\ Len(results[2].returned) = 1
    /\ results[1].returned[2] = results[2].returned[1]
    /\ results[1].returned[1] # results[1].returned[2]
    /\ Event_lt(Event_from_dict(results[1].returned[2]), Event_from_dict(results[1].returned[1]))
    /\ \E d \in DOMAIN grouped.returned : Len(grouped.returned[d]) = 2

(***************************************************************************)
(* SpecCache: Cache.load_cache and Cache.save_cache over one backing file. *)
(***************************************************************************)
MaxExpiration == 2
MaxNow == 3

\* What the provider may answer with: no daily entries, one, or two given
\* later day first.
ProviderPayloads ==
    {[current |-> [temp |-> 145, weather |-> <<500>>],
      hourly |-> <<[dt |-> 7200, temp |-> 139, weather |-> <<800>>],
                   [dt |-> 3600, temp |-> 143, weather |-> <<>>]>>,
      daily |-> d] :
        d \in {<<>>,
               <<[dt |-> 86400, temp |-> [max |-> 141, min |-> 101], weather |-> <<800>>]>>,
               <<[dt |-> 172800, temp |-> [max |-> 131, min |-> -3], weather |-> <<500>>],
                 [dt |-> 86400, temp |-> [max |-> 141, min |-> 101], weather |-> <<800>>]>>}}

\* The same, and a payload without hourly entries.
RenderPayloads ==
    ProviderPayloads \cup
        {[current |-> [temp |-> 145, weather |-> <<>>], hourly |-> <<>>,
          daily |-> <<[dt |-> 86400, temp |-> [max |-> 141, min |-> 101],
                       weather |-> <<800>>]>>]}

\* The values a cache of Weather holds.
CacheValues ==
    {Weather_from_one_call(p) : p \in {q \in ProviderPayloads : q.daily # <<>>}}

StreamLen == Len(pickle_dump(None))

\* Time passes.
CacheTick ==
    /\ now < MaxNow
    /\ now' = now + 1
    /\ UNCHANGED <<cacheVars, weatherVars, calVars, mainVars>>

\* save_cache runs to its end.
SaveCache(data) ==
    /\ cfile' = save_cache(cfile, data, StreamLen, now)
    /\ UNCHANGED <<expiration, loaded, now, weatherVars, calVars, mainVars>>

\* The process is stopped inside save_cache, after open("wb") and before the
\* whole stream is written.
SaveCacheInterrupted(data, written) ==
    /\ written < StreamLen
    /\ cfile' = save_cache(cfile, data, written, now)
    /\ UNCHANGED <<expiration, loaded, now, weatherVars, calVars, mainVars>>

\* Something else writes the file: bytes that are no pickle stream.
FileOverwritten ==
    /\ cfile' = [mtime |-> now, bytes |-> <<[op |-> "garbage"]>>,
                 readable |-> IF cfile = Missing THEN TRUE ELSE cfile.readable]
    /\ UNCHANGED <<expiration, loaded, now, weatherVars, calVars, mainVars>>

\* The file's read permission is taken away.
FileMadeUnreadable ==
    /\ cfile # Missing
    /\ cfile.readable
    /\ cfile' = [cfile EXCEPT !.readable = FALSE]
    /\ UNCHANGED <<expiration, loaded, now, weatherVars, calVars, mainVars>>

\* The file is deleted.
FileDeleted ==
    /\ cfile # Missing
    /\ cfile' = Missing
    /\ UNCHANGED <<expiration, loaded, now, weatherVars, calVars, mainVars>>

\* A caller runs load_cache; `loaded` keeps what it got, when, and the file
\* it ran against.
LoadCache ==
    /\ loaded' = [result |-> load_cache(cfile, expiration, now), at |-> now, file |-> cfile]
    /\ UNCHANGED <<cfile, expiration, now, weatherVars, calVars, mainVars>>

InitCache ==
    /\ cfile = Missing
    /\ expiration \in 0..MaxExpiration
    /\ loaded = NeverLoaded
    /\ now = 0
    /\ WeatherIdle
    /\ CalendarIdle
    /\ MainIdle

NextCache ==
    \/ CacheTick
    \/ \E data \in CacheValues : SaveCache(data)
    \/ \E data \in CacheValues, written \in 0..StreamLen : SaveCacheInterrupted(data, written)
    \/ FileOverwritten
    \/ FileMadeUnreadable
    \/ FileDeleted
    \/ LoadCache

SpecCache == InitCache /\ [][NextCache]_vars

(***************************************************************************)
(* Claims about the persistent cache (SpecCache).                          *)
(***************************************************************************)
HasLoaded == loaded # NeverLoaded
LoadedAge == loaded.at - loaded.file.mtime
\* The file load_cache ran against was left by a save_cache of v that ran to
\* its end, and can be read.
LoadedAfterSaveOf(v) ==
    /\ loaded.file # Missing
    /\ loaded.file.readable
    /\ loaded.file.bytes = pickle_dump(v)

\* C4: a load with no time elapsed since a save of v returns v, whenever
\* expiration > 0; a load made after more than `expiration` has elapsed since
\* the file was written never returns the value (it returns None).
C4_CacheRoundTrip ==
    HasLoaded =>
        /\ \A v \in CacheValues :
               (expiration > 0 /\ LoadedAfterSaveOf(v) /\ LoadedAge = 0)
                   => loaded.result = Returned(v)
        /\ (loaded.file # Missing /\ LoadedAge > expiration)
               => loaded.result = Returned(None)

\* Witness of C4: a value saved and loaded back at once, and the same file
\* refused once it is older than expiration.
C4_WitnessFresh ==
    /\ HasLoaded
    /\ expiration > 0
    /\ \E v \in CacheValues : LoadedAfterSaveOf(v) /\ LoadedAge = 0 /\ loaded.result = Returned(v)

C4_WitnessExpired ==
    /\ HasLoaded
    /\ expiration > 0
    /\ \E v \in CacheValues : LoadedAfterSaveOf(v)
    /\ LoadedAge > expiration
    /\ loaded.result = Returned(None)

\* C5: a load against a missing, corrupt (empty and truncated included) or
\* unreadable backing file returns the cache-miss result and raises nothing.
C5_BadFileIsAMiss ==
    (HasLoaded /\ (\/ loaded.file = Missing
                   \/ ~loaded.file.readable
                   \/ \A v \in CacheValues : loaded.file.bytes # pickle_dump(v)))
        => loaded.result = Returned(None)

(***************************************************************************)
(* Spec: the driver, the render cycles, get_weather and the image files.   *)
(***************************************************************************)
MaxCycles == 2
MaxTime == 1500
TickLen == 300

Paths == {OUTPUT_PATH, temp_output, output_html}

\* What the provider may send back: an OK response with a payload, or a
\* server error.
Responses ==
    {[status |-> HTTP_OK, data |-> p] : p \in RenderPayloads}
        \cup {[status |-> 500, data |-> None]}

Cycles == DOMAIN cyc
others == <<weatherVars, calVars, cacheVars>>

\* Time passes.
Tick ==
    /\ driver # "raised"
    /\ now + TickLen <= MaxTime
    /\ now' = now + TickLen
    /\ UNCHANGED <<mainVars, others>>

\* The loop body: asyncio.gather starts the sleep and a generate_image call,
\* which takes current_datetime and goes on to fetch_data.
DriverGathers ==
    /\ driver = "loop"
    /\ started < MaxCycles
    /\ driver' = "await"
    /\ sleep' = [until |-> now + SLEEP_SECONDS]
    /\ started' = started + 1
    /\ cyc' = Append(cyc, NewCycle(now))
    /\ UNCHANGED <<files, wcache, policy, requests, now, others>>

\* The sleep's timer fires, at its deadline or later.
SleepFires ==
    /\ driver = "await"
    /\ "until" \in DOMAIN sleep
    /\ now >= sleep.until
    /\ sleep' = [state |-> "done"]
    /\ UNCHANGED <<driver, started, cyc, files, wcache, policy, requests, now, others>>

\* gather returns and the loop goes round.
DriverGatherReturns ==
    /\ driver = "await"
    /\ gather_returns(sleep, cyc[started].pc)
    /\ driver' = "loop"
    /\ sleep' = NoSleep
    /\ UNCHANGED <<started, cyc, files, wcache, policy, requests, now, others>>

\* gather raises what generate_image raised; nothing in
\* generate_image_every_minute or run catches it, so asyncio.run ends.
DriverGatherRaises ==
    /\ driver = "await"
    /\ cyc[started].pc = "failed"
    /\ driver' = "raised"
    /\ sleep' = NoSleep
    /\ UNCHANGED <<started, cyc, files, wcache, policy, requests, now, others>>

\* get_weather runs to its first await.
WeatherStarts(n) ==
    /\ driver # "raised"
    /\ cyc[n].pc = "fetch"
    /\ cyc[n].weather.pc = "load"
    /\ LET r == get_weather_start(cyc[n].weather, wcache, policy, now)
       IN  /\ cyc' = [cyc EXCEPT ![n].weather = r.task]
           /\ wcache' = r.entry
           /\ requests' = requests + r.sent
    /\ UNCHANGED <<driver, sleep, started, files, policy, now, others>>

\* The provider's response arrives and get_weather runs to its end.
WeatherResponds(n, response) ==
    /\ driver # "raised"
    /\ cyc[n].pc = "fetch"
    /\ cyc[n].weather.pc = "request"
    /\ LET r == get_weather_finish(cyc[n].weather, response, wcache, now)
       IN  /\ cyc' = [cyc EXCEPT ![n].weather = r.task]
           /\ wcache' = r.entry
    /\ UNCHANGED <<driver, sleep, started, files, policy, requests, now, others>>

\* The request to the provider fails in transport: session.get raises.
WeatherTransportFails(n) ==
    /\ driver # "raised"
    /\ cyc[n].pc = "fetch"
    /\ cyc[n].weather.pc = "request"
    /\ cyc' = [cyc EXCEPT ![n].weather.pc = "raised", ![n].weather.error = "ClientError"]
    /\ UNCHANGED <<driver, sleep, started, files, wcache, policy, requests, now, others>>

\* get_calendars returns its mapping, or raises.
CalendarsFinish(n, how) ==
    /\ driver # "raised"
    /\ cyc[n].pc = "fetch"
    /\ cyc[n].calendars = "pending"
    /\ cyc' = [cyc EXCEPT ![n].calendars = how]
    /\ UNCHANGED <<driver, sleep, started, files, wcache, policy, requests, now, others>>

\* fetch_data's gather: raises as soon as a task raised, returns when both
\* returned.
FetchDataEnds(n) ==
    /\ driver # "raised"
    /\ cyc[n].pc = "fetch"
    /\ IF cyc[n].weather.pc = "raised" \/ cyc[n].calendars = "raised"
       THEN cyc' = [cyc EXCEPT ![n].pc = "failed"]
       ELSE /\ cyc[n].weather.pc = "returned"
            /\ cyc[n].calendars = "returned"
            /\ cyc' = [cyc EXCEPT ![n].pc = "render"]
    /\ UNCHANGED <<driver, sleep, started, files, wcache, policy, requests, now, others>>

\* Annotating the dates, drawing the hourly chart, rendering the template
\* and writing ./output.html; `io_ok` is whether the template and the files
\* could be read and written.
Renders(n, io_ok) ==
    /\ driver # "raised"
    /\ cyc[n].pc = "render"
    /\ IF draw_weather_forecast_raises(cyc[n].weather.weather.hourly) \/ ~io_ok
       THEN /\ cyc' = [cyc EXCEPT ![n].pc = "failed"]
            /\ files' = files
       ELSE /\ cyc' = [cyc EXCEPT ![n].pc = "screenshot"]
            /\ files' = [files EXCEPT ![output_html] = [cycle |-> n, content |-> "html"]]
    /\ UNCHANGED <<driver, sleep, started, wcache, policy, requests, now, others>>

\* hti.screenshot writes the raster to save_as; `wrote` is what it left
\* there: the whole screenshot, a part of it, or nothing.
Screenshots(n, wrote) ==
    /\ driver # "raised"
    /\ cyc[n].pc = "screenshot"
    /\ cyc' = [cyc EXCEPT ![n].pc = IF wrote = "screenshot" THEN "rotate" ELSE "failed"]
    /\ files' = IF wrote = "nothing" THEN files
                ELSE [files EXCEPT ![screenshot_save_as] = [cycle |-> n, content |-> wrote]]
    /\ UNCHANGED <<driver, sleep, started, wcache, policy, requests, now, others>>

\* Image.open(temp_output), rotate, save(temp_output, optimize=True); `wrote`
\* is what the save left at temp_output.
Rotates(n, wrote) ==
    /\ driver # "raised"
    /\ cyc[n].pc = "rotate"
    /\ cyc' = [cyc EXCEPT ![n].pc = IF wrote = "image" THEN "rename" ELSE "failed"]
    /\ files' = IF wrote = "nothing" THEN files
                ELSE [files EXCEPT ![temp_output] = [cycle |-> n, content |-> wrote]]
    /\ UNCHANGED <<driver, sleep, started, wcache, policy, requests, now, others>>

\* temp_output.rename(OUTPUT_PATH), the last statement of generate_image.
Renames(n, ok) ==
    /\ driver # "raised"
    /\ cyc[n].pc = "rename"
    /\ IF ok /\ files[temp_output] # Missing
       THEN /\ files' = [files EXCEPT ![OUTPUT_PATH] = files[temp_output],
                                      ![temp_output] = Missing]
            /\ cyc' = [cyc EXCEPT ![n].pc = "done"]
       ELSE /\ files' = files
            /\ cyc' = [cyc EXCEPT ![n].pc = "failed"]
    /\ UNCHANGED <<driver, sleep, started, wcache, policy, requests, now, others>>

Init ==
    /\ driver = "loop"
    /\ sleep = NoSleep
    /\ started = 0
    /\ cyc = <<>>
    /\ files = [p \in Paths |-> Missing]
    /\ wcache = Missing
    /\ policy \in {"evict", "keep"}
    /\ requests = 0
    /\ now = 0
    /\ WeatherIdle
    /\ CalendarIdle
    /\ CacheIdle

Next ==
    \/ Tick
    \/ DriverGathers
    \/ SleepFires
    \/ DriverGatherReturns
    \/ DriverGatherRaises
    \/ \E n \in Cycles : WeatherStarts(n)
    \/ \E n \in Cycles, response \in Responses : WeatherResponds(n, response)
    \/ \E n \in Cycles : WeatherTransportFails(n)
    \/ \E n \in Cycles, how \in {"returned", "raised"} : CalendarsFinish(n, how)
    \/ \E n \in Cycles : FetchDataEnds(n)
    \/ \E n \in Cycles, io_ok \in BOOLEAN : Renders(n, io_ok)
    \/ \E n \in Cycles, wrote \in {"screenshot", "partial", "nothing"} : Screenshots(n, wrote)
    \/ \E n \in Cycles, wrote \in {"image", "partial", "nothing"} : Rotates(n, wrote)
    \/ \E n \in Cycles, ok \in BOOLEAN : Renames(n, ok)

Spec == Init /\ [][Next]_vars

(***************************************************************************)
(* Claims about the driver, the render cycle and get_weather (Spec).       *)
(***************************************************************************)
Published == files[OUTPUT_PATH]

\* The published file is absent, or a whole image left by a cycle that ran
\* to its end.
PublishedIsWhole ==
    Published = Missing
        \/ (Published.content = "image" /\ cyc[Published.cycle].pc = "done")

\* The published file changes only in the step in which a cycle renames its
\* finished temporary file over it and ends; a step in which a cycle aborts
\* leaves it as it was.
PublishedOnlyByRename ==
    /\ Published' # Published =>
           \E n \in Cycles :
               /\ cyc[n].pc = "rename" /\ cyc'[n].pc = "done"
               /\ Published' = files[temp_output]
    /\ \A n \in Cycles :
           (cyc[n].pc # "failed" /\ cyc'[n].pc = "failed") => Published' = Published

\* C1: in every state the file at the output path is absent or a complete
\* image of a cycle that ran to full success; it is changed only by the final
\* rename, and an aborting cycle leaves the published image in place.
C1_AtomicPublish == []PublishedIsWhole /\ [][PublishedOnlyByRename]_vars

\* Witness of C1: the first cycle published its image; the second aborted
\* with a half-written temporary file, and the first image is still there.
C1_Witness ==
    /\ started = 2
    /\ cyc[2].pc = "failed"
    /\ files[temp_output] = [cycle |-> 2, content |-> "partial"]
    /\ Published = [cycle |-> 1, content |-> "image"]

\* C2: when a render cycle aborts with an error the driver is unaffected: it
\* is still in its loop (about to gather, or awaiting a gather).
C2_DriverSurvivesAbort ==
    (\E n \in Cycles : cyc[n].pc = "failed") => driver \in {"loop", "await"}

\* C3: render cycles never overlap: when cycle n+1 has been started, cycle n
\* has fully completed.
C3_CyclesNeverOverlap ==
    \A n \in Cycles : n < started => cyc[n].pc = "done"

\* Witness of C3: the first cycle outlasted the interval, and the second was
\* started late, after the first had ended.
C3_Witness ==
    /\ started = 2
    /\ cyc[1].pc = "done"
    /\ cyc[2].current_datetime > cyc[1].current_datetime + SLEEP_SECONDS

\* The cache holds an entry younger than the expiration.
CacheHoldsFresh ==
    wcache # Missing /\ now - wcache.stored_at < WEATHER_CACHE_EXPIRATION

\* In a step: a get_weather call that starts while the cache holds a fresh
\* entry returns that entry's Weather and sends nothing; a request is sent
\* only while the cache holds no fresh entry; a call that returns after an OK
\* response leaves what it returns in the cache, stamped now.
CacheGatesProvider ==
    /\ \A n \in Cycles :
           (cyc[n].weather.pc = "load" /\ cyc'[n].weather.pc # "load" /\ CacheHoldsFresh)
               => /\ cyc'[n].weather.pc = "returned"
                  /\ cyc'[n].weather.weather = wcache.value
                  /\ requests' = requests
    /\ requests' # requests => (~CacheHoldsFresh /\ requests' = requests + 1)
    /\ \A n \in Cycles :
           (/\ cyc[n].weather.pc = "request" /\ cyc'[n].weather.pc = "returned"
            /\ cyc'[n].weather.response.status = HTTP_OK)
               => wcache' = [value |-> cyc'[n].weather.weather, stored_at |-> now]

MissingFieldErrors == {"IndexError", "KeyError", "ValueError"}

GotEmptyDaily(task) ==
    /\ task.response # None
    /\ task.response.status = HTTP_OK
    /\ task.response.data.daily = <<>>

\* A get_weather call that was answered with an empty daily list has raised
\* a missing-field error, and its cycle never got past fetch_data.
EmptyDailyRaises ==
    \A n \in Cycles :
        GotEmptyDaily(cyc[n].weather) =>
            /\ cyc[n].weather.pc = "raised"
            /\ cyc[n].weather.error \in MissingFieldErrors
            /\ cyc[n].pc \in {"fetch", "failed"}

\* The step in which that answer arrives leaves the cache as it was.
EmptyDailyNotCached ==
    \A n \in Cycles :
        (~GotEmptyDaily(cyc[n].weather) /\ GotEmptyDaily(cyc'[n].weather))
            => wcache' = wcache

\* C9: building a snapshot from a payload with an empty daily list fails with
\* a missing-field error that reaches the caller: get_weather raises it, the
\* cycle aborts, and no Weather is produced or cached.
C9_EmptyDailySurfaces == []EmptyDailyRaises /\ [][EmptyDailyNotCached]_vars

\* Witness of C9: the provider answered OK with no daily entries, get_weather
\* raised IndexError, the cycle aborted and the cache is still empty.
C9_Witness ==
    /\ started = 1
    /\ GotEmptyDaily(cyc[1].weather)
    /\ cyc[1].weather.error = "IndexError"
    /\ cyc[1].pc = "failed"
    /\ wcache = Missing

\* The get_weather call was answered with a status other than OK.
GotHttpFailure(task) ==
    /\ task.response # None
    /\ task.response.status # HTTP_OK

\* Cycle n never got past fetch_data and published nothing.
AbortedInFetch(n) ==
    /\ cyc[n].pc \in {"fetch", "failed"}
    /\ Published = Missing \/ Published.cycle # n

====
